---- MODULE Spec2Model ----
(***************************************************************************)
(* ShipTrack: role-gated REST API over a relational store (users,          *)
(* suppliers, item types, shipments, shipment items, importing details,    *)
(* customs, customs per type).                                              *)
(*                                                                         *)
(* store  - the database: one partial function (id -> row) per table and   *)
(*          the identity counters of the tables.                           *)
(* last   - the request that was served last: the role its user had in     *)
(*          the store when it arrived, its HTTP method, its route and its  *)
(*          status code (a read adds what it returned).                    *)
(* inflight - the bulk item replaces that have started and not yet         *)
(*          answered, by connection: the payload, the items read at the    *)
(*          start and the position in the handler's loops.                 *)
(*                                                                         *)
(* A row keeps the columns the workflow, the access policy and the derived *)
(* values read or write.  Free-text columns (names, contact info, photo    *)
(* url), timestamps and createdById/updatedById are not represented.       *)
(*                                                                         *)
(* A request body is a record holding exactly the fields the client sent;  *)
(* a field that is not in DOMAIN body is JavaScript's undefined.           *)
(*                                                                         *)
(* Decimal values: a decimal string of a request is represented by its     *)
(* value in thousandths (mills, "2.50" = 2500), a stored decimal(_,2)      *)
(* column by its value in hundredths (cents, 2.50 = 250).  JavaScript      *)
(* number arithmetic is taken as exact on the small values used here.      *)
(***************************************************************************)
EXTENDS Integers, Sequences, FiniteSets, TLC

VARIABLES store, last, inflight

vars == <<store, last, inflight>>

----------------------------------------------------------------------------
(* Bounds of the model *)

\* Users in the store, and rows ever created per table.
MaxUsers == 2
MaxSuppliers == 1
MaxItemTypes == 1
MaxShipments == 1
MaxItems == 1
MaxPerType == 1
\* Shipments ever created in the workflow runs.
MaxWorkflowShipments == 2
\* Items ever created in the line-item runs, and the length of a bulk payload.
MaxItemRows == 2
MaxBulk == 2
\* Connections that send a bulk replace at the same time.
MaxConnections == 2
MaxRelatedItems == 2
MaxRelatedPerType == 2

UserIds == 1..MaxUsers

----------------------------------------------------------------------------
(* Schema *)

userRoleEnum == {"ADMIN", "OPERATOR", "VIEWER"}

statusOrder == <<"CREATED", "IMPORTING_DETAILS_DONE", "CUSTOMS_IN_PROGRESS", "CUSTOMS_RECEIVED">>

shipmentStatusEnum == {statusOrder[i] : i \in 1..Len(statusOrder)}

\* Position of a status in the workflow order.
Rank(s) == CHOOSE i \in 1..Len(statusOrder) : statusOrder[i] = s

\* Columns of the shipments table a request can set.
ShipmentColumns == {"status", "backendMasterKey"}

\* Columns of the shipment_items table a request can set.
ShipmentItemColumns == {"shipmentId", "supplierId", "itemTypeId", "ctn", "pcsPerCtn", "cou", "pri", "total"}

\* Columns of the importing_details table a request can set.
ImportingDetailsColumns == {"shipmentId", "totalShipmentPrice", "commissionPercent", "commissionAmount", "shipmentCost", "shipmentSpaceM2"}

\* Columns of the customs table a request can set.
CustomsColumns == {"shipmentId", "totalPiecesRecorded", "totalPiecesAdjusted", "lossOrDamagePieces"}

\* Columns of the customs_per_type table a request can set.
CustomsPerTypeColumns == {"customsId", "itemTypeId", "totalPcsPerType", "totalCtnPerType"}

----------------------------------------------------------------------------
(* Helpers for rows, bodies and decimals *)

\* Object spread restricted to known keys: the fields of body that are in cols.
Only(body, cols) == [k \in DOMAIN body \cap cols |-> body[k]]

\* body.k, or d when the field was not sent.
Get(body, k, d) == IF k \in DOMAIN body THEN body[k] ELSE d

\* The table t with row id set to row.
Put(t, id, row) == [k \in DOMAIN t \cup {id} |-> IF k = id THEN row ELSE t[k]]

\* The table t without the rows ids.
Drop(t, ids) == [k \in DOMAIN t \ ids |-> t[k]]

\* n / d rounded to the nearest integer, halves away from zero (numeric rounding).
RoundDiv(n, d) == IF n >= 0 THEN (2 * n + d) \div (2 * d) ELSE -((2 * (-n) + d) \div (2 * d))

\* A value in mills as stored in a decimal(_, 2) column: cents.
ToCents(mills) == RoundDiv(mills, 10)

\* A stored decimal(_, 2) value as read back and parsed: mills.
ToMills(cents) == cents * 10

\* The outcome of a storage call that throws (a constraint or type error of the database).
DbError == [ok |-> FALSE]

\* The outcome of a storage call that returns: the new database and whether a row was returned.
Done(db, found) == [ok |-> TRUE, found |-> found, db |-> db]

----------------------------------------------------------------------------
(* Access control *)

\* A request that carries no user id.
NoUserId == 0

\* The role the store holds for user u at the time of the request: "NONE" when
\* the signed-in user has no row, "ANONYMOUS" when the request carries no user id.
RoleOf(u) ==
    IF u \in DOMAIN store.users THEN store.users[u]
    ELSE IF u = NoUserId THEN "ANONYMOUS"
    ELSE "NONE"

\* Middleware: 0 lets the request through, 401 and 403 reject it.
\* A gate that decides by the role the user had when the session began (the
\* first administrator's ADMIN, the VIEWER of a first sign-in) instead of the stored one.
requireRoleOfSession(u, roles) ==
    IF u = NoUserId THEN 401
    ELSE IF u \notin DOMAIN store.users \/ (IF u = 1 THEN "ADMIN" ELSE "VIEWER") \notin roles THEN 403
    ELSE 0

\* A gate that lets a caller without a users row through.
requireRoleOfKnown(u, roles) ==
    IF u = NoUserId THEN 401
    ELSE IF u \in DOMAIN store.users /\ store.users[u] \notin roles THEN 403
    ELSE 0

requireRole(u, roles) ==
    IF u = NoUserId THEN 401
    ELSE IF u \notin DOMAIN store.users \/ store.users[u] \notin roles THEN 403
    ELSE 0

\* requireEditor with every role let through.
requireEditorAnyRole(u) == requireRole(u, {"ADMIN", "OPERATOR", "VIEWER"})

requireEditor(u) == requireRole(u, {"ADMIN", "OPERATOR"})

\* requireAdmin with the editor's roles let through.
requireAdminAsEditor(u) == requireRole(u, {"ADMIN", "OPERATOR"})

requireAdmin(u) == requireRole(u, {"ADMIN"})

\* The response of the request of user u: the store becomes db.
Reply(u, method, route, code, db) ==
    /\ last' = [role |-> RoleOf(u), method |-> method, route |-> route, code |-> code]
    /\ store' = db
    /\ UNCHANGED inflight

----------------------------------------------------------------------------
(* Users *)

updateUserRole(db, id, role) ==
    IF id \notin DOMAIN db.users THEN Done(db, FALSE)
    ELSE Done([db EXCEPT !.users[id] = role], TRUE)

\* PATCH /api/users/:id/role
PatchUserRole(u, id, role) ==
    IF requireAdmin(u) # 0 THEN Reply(u, "PATCH", "/api/users/:id/role", requireAdmin(u), store)
    ELSE IF role \notin userRoleEnum THEN Reply(u, "PATCH", "/api/users/:id/role", 400, store)
    ELSE LET r == updateUserRole(store, id, role) IN
         IF ~r.found THEN Reply(u, "PATCH", "/api/users/:id/role", 404, store)
         ELSE Reply(u, "PATCH", "/api/users/:id/role", 200, r.db)

----------------------------------------------------------------------------
(* Shipments *)

createShipment(db, shipment) ==
    IF \E o \in DOMAIN db.shipments : db.shipments[o].backendMasterKey = shipment.backendMasterKey
    THEN DbError
    ELSE Done([db EXCEPT !.shipments = Put(@, db.seq.shipments,
                                           [status |-> Get(shipment, "status", "CREATED"),
                                            backendMasterKey |-> shipment.backendMasterKey]),
                         !.seq.shipments = @ + 1], TRUE)

updateShipment(db, id, shipment) ==
    LET set == Only(shipment, ShipmentColumns) IN
    IF "status" \in DOMAIN set /\ set.status \notin shipmentStatusEnum THEN DbError
    ELSE IF id \notin DOMAIN db.shipments THEN Done(db, FALSE)
    ELSE IF /\ "backendMasterKey" \in DOMAIN set
            /\ \E o \in DOMAIN db.shipments \ {id} : db.shipments[o].backendMasterKey = set.backendMasterKey
    THEN DbError
    ELSE Done([db EXCEPT !.shipments[id] = set @@ @], TRUE)

\* The rows of shipment id's children, removed with it (onDelete: cascade).
\* A deletion that removes the shipments row and leaves the rows that reference it.
deleteShipmentOnly(db, id) == Done([db EXCEPT !.shipments = Drop(@, {id})], TRUE)

deleteShipment(db, id) ==
    LET gone == {c \in DOMAIN db.customs : db.customs[c].shipmentId = id} IN
    Done([db EXCEPT !.shipments = Drop(@, {id}),
                    !.shipmentItems = Drop(@, {i \in DOMAIN @ : @[i].shipmentId = id}),
                    !.importingDetails = Drop(@, {i \in DOMAIN @ : @[i].shipmentId = id}),
                    !.customs = Drop(@, gone),
                    !.customsPerType = Drop(@, {p \in DOMAIN @ : @[p].customsId \in gone})], TRUE)

\* insertShipmentSchema: backendMasterKey is required, status is optional and of the enum.
insertShipmentSchema(body) ==
    /\ "backendMasterKey" \in DOMAIN body
    /\ "status" \in DOMAIN body => body.status \in shipmentStatusEnum

\* POST /api/shipments
PostShipment(u, body) ==
    IF requireEditor(u) # 0 THEN Reply(u, "POST", "/api/shipments", requireEditor(u), store)
    ELSE IF ~insertShipmentSchema(body) THEN Reply(u, "POST", "/api/shipments", 400, store)
    ELSE LET r == createShipment(store, Only(body, ShipmentColumns)) IN
         IF ~r.ok THEN Reply(u, "POST", "/api/shipments", 500, store)
         ELSE Reply(u, "POST", "/api/shipments", 201, r.db)

\* PATCH /api/shipments/:id
PatchShipment(u, id, body) ==
    IF requireEditor(u) # 0 THEN Reply(u, "PATCH", "/api/shipments/:id", requireEditor(u), store)
    ELSE LET r == updateShipment(store, id, body) IN
         IF ~r.ok THEN Reply(u, "PATCH", "/api/shipments/:id", 500, store)
         ELSE IF ~r.found THEN Reply(u, "PATCH", "/api/shipments/:id", 404, store)
         ELSE Reply(u, "PATCH", "/api/shipments/:id", 200, r.db)

\* PATCH /api/shipments/:id/status
PatchShipmentStatus(u, id, body) ==
    IF requireAdmin(u) # 0 THEN Reply(u, "PATCH", "/api/shipments/:id/status", requireAdmin(u), store)
    ELSE LET r == updateShipment(store, id, Only(body, {"status"})) IN
         IF ~r.ok THEN Reply(u, "PATCH", "/api/shipments/:id/status", 500, store)
         ELSE IF ~r.found THEN Reply(u, "PATCH", "/api/shipments/:id/status", 404, store)
         ELSE Reply(u, "PATCH", "/api/shipments/:id/status", 200, r.db)

\* DELETE /api/shipments/:id
DeleteShipment(u, id) ==
    IF requireAdmin(u) # 0 THEN Reply(u, "DELETE", "/api/shipments/:id", requireAdmin(u), store)
    ELSE Reply(u, "DELETE", "/api/shipments/:id", 204, deleteShipment(store, id).db)

\* useAuth: what the client derives from the role of the signed-in user.
canEdit(role) == role \in {"ADMIN", "OPERATOR"}

isAdmin(role) == role = "ADMIN"

\* Shipment page: whether the advance button is shown.
canAdvanceStatus(role, status) ==
    IF ~canEdit(role) THEN FALSE
    ELSE IF status = "CUSTOMS_RECEIVED" THEN FALSE
    ELSE IF status = "CUSTOMS_IN_PROGRESS" /\ ~isAdmin(role) THEN FALSE
    ELSE TRUE

\* A successor table that skips a stage and wraps around at the end.
getNextStatusSkipping(status) ==
    CASE status = "CREATED" -> "CUSTOMS_IN_PROGRESS"
      [] status = "IMPORTING_DETAILS_DONE" -> "CUSTOMS_IN_PROGRESS"
      [] status = "CUSTOMS_IN_PROGRESS" -> "CUSTOMS_RECEIVED"
      [] OTHER -> "CREATED"

\* Shipment page: the status the advance button asks for ("null" when there is none).
getNextStatus(status) ==
    CASE status = "CREATED" -> "IMPORTING_DETAILS_DONE"
      [] status = "IMPORTING_DETAILS_DONE" -> "CUSTOMS_IN_PROGRESS"
      [] status = "CUSTOMS_IN_PROGRESS" -> "CUSTOMS_RECEIVED"
      [] OTHER -> "null"

\* Shipment page: the user presses the advance button of shipment id.
ClientAdvance(u, id) ==
    /\ id \in DOMAIN store.shipments
    /\ canAdvanceStatus(RoleOf(u), store.shipments[id].status)
    /\ PatchShipmentStatus(u, id, [status |-> getNextStatus(store.shipments[id].status)])

----------------------------------------------------------------------------
(* Suppliers and item types *)

createSupplier(db, supplier) ==
    Done([db EXCEPT !.suppliers = Put(@, db.seq.suppliers, [name |-> supplier.name]),
                    !.seq.suppliers = @ + 1], TRUE)

updateSupplier(db, id, supplier) ==
    IF id \notin DOMAIN db.suppliers THEN Done(db, FALSE)
    ELSE Done([db EXCEPT !.suppliers[id] = Only(supplier, {"name"}) @@ @], TRUE)

\* shipment_items.supplier_id references suppliers.id with no cascade.
\* A deletion that does not look for the items that reference the supplier.
deleteSupplierUnchecked(db, id) == Done([db EXCEPT !.suppliers = Drop(@, {id})], TRUE)

deleteSupplier(db, id) ==
    IF \E i \in DOMAIN db.shipmentItems : db.shipmentItems[i].supplierId = id THEN DbError
    ELSE Done([db EXCEPT !.suppliers = Drop(@, {id})], TRUE)

createItemType(db, itemType) ==
    Done([db EXCEPT !.itemTypes = Put(@, db.seq.itemTypes, [name |-> itemType.name]),
                    !.seq.itemTypes = @ + 1], TRUE)

updateItemType(db, id, itemType) ==
    IF id \notin DOMAIN db.itemTypes THEN Done(db, FALSE)
    ELSE Done([db EXCEPT !.itemTypes[id] = Only(itemType, {"name"}) @@ @], TRUE)

\* shipment_items.item_type_id and customs_per_type.item_type_id reference item_types.id with no cascade.
deleteItemType(db, id) ==
    IF \/ \E i \in DOMAIN db.shipmentItems : db.shipmentItems[i].itemTypeId = id
       \/ \E p \in DOMAIN db.customsPerType : db.customsPerType[p].itemTypeId = id
    THEN DbError
    ELSE Done([db EXCEPT !.itemTypes = Drop(@, {id})], TRUE)

\* insertSupplierSchema, insertItemTypeSchema: name is required.
insertSupplierSchema(body) == "name" \in DOMAIN body

insertItemTypeSchema(body) == "name" \in DOMAIN body

\* POST /api/suppliers
PostSupplier(u, body) ==
    IF requireEditor(u) # 0 THEN Reply(u, "POST", "/api/suppliers", requireEditor(u), store)
    ELSE IF ~insertSupplierSchema(body) THEN Reply(u, "POST", "/api/suppliers", 400, store)
    ELSE Reply(u, "POST", "/api/suppliers", 201, createSupplier(store, body).db)

\* PATCH /api/suppliers/:id
PatchSupplier(u, id, body) ==
    IF requireEditor(u) # 0 THEN Reply(u, "PATCH", "/api/suppliers/:id", requireEditor(u), store)
    ELSE LET r == updateSupplier(store, id, body) IN
         IF ~r.found THEN Reply(u, "PATCH", "/api/suppliers/:id", 404, store)
         ELSE Reply(u, "PATCH", "/api/suppliers/:id", 200, r.db)

\* DELETE /api/suppliers/:id
DeleteSupplier(u, id) ==
    IF requireAdmin(u) # 0 THEN Reply(u, "DELETE", "/api/suppliers/:id", requireAdmin(u), store)
    ELSE LET r == deleteSupplier(store, id) IN
         IF ~r.ok THEN Reply(u, "DELETE", "/api/suppliers/:id", 500, store)
         ELSE Reply(u, "DELETE", "/api/suppliers/:id", 204, r.db)

\* POST /api/item-types
PostItemType(u, body) ==
    IF requireEditor(u) # 0 THEN Reply(u, "POST", "/api/item-types", requireEditor(u), store)
    ELSE IF ~insertItemTypeSchema(body) THEN Reply(u, "POST", "/api/item-types", 400, store)
    ELSE Reply(u, "POST", "/api/item-types", 201, createItemType(store, body).db)

\* PATCH /api/item-types/:id
PatchItemType(u, id, body) ==
    IF requireEditor(u) # 0 THEN Reply(u, "PATCH", "/api/item-types/:id", requireEditor(u), store)
    ELSE LET r == updateItemType(store, id, body) IN
         IF ~r.found THEN Reply(u, "PATCH", "/api/item-types/:id", 404, store)
         ELSE Reply(u, "PATCH", "/api/item-types/:id", 200, r.db)

\* DELETE /api/item-types/:id
DeleteItemType(u, id) ==
    IF requireAdmin(u) # 0 THEN Reply(u, "DELETE", "/api/item-types/:id", requireAdmin(u), store)
    ELSE LET r == deleteItemType(store, id) IN
         IF ~r.ok THEN Reply(u, "DELETE", "/api/item-types/:id", 500, store)
         ELSE Reply(u, "DELETE", "/api/item-types/:id", 204, r.db)

----------------------------------------------------------------------------
(* Shipment items *)

\* The foreign keys of a shipment_items row hold in db.
ItemRefsOk(db, row) ==
    /\ row.shipmentId \in DOMAIN db.shipments
    /\ row.supplierId \in DOMAIN db.suppliers
    /\ row.itemTypeId \in DOMAIN db.itemTypes

\* A lookup that ignores the shipment and returns the ids of all items.
getAllShipmentItems(db, shipmentId) == DOMAIN db.shipmentItems

\* The ids of the items of shipment shipmentId.
getShipmentItems(db, shipmentId) == {i \in DOMAIN db.shipmentItems : db.shipmentItems[i].shipmentId = shipmentId}

\* The values of a request as the columns store them: pri and total are decimal(18, 2).
ItemValues(item) ==
    [k \in DOMAIN item \cap ShipmentItemColumns |-> IF k \in {"pri", "total"} THEN ToCents(item[k]) ELSE item[k]]

createShipmentItem(db, item) ==
    LET cou == Get(item, "ctn", 0) * Get(item, "pcsPerCtn", 0)
        total == cou * Get(item, "pri", 0)
        row == [cou |-> cou, total |-> ToCents(total)] @@ ItemValues(item) @@ [ctn |-> 0, pcsPerCtn |-> 0, pri |-> 0]
    IN  IF {"shipmentId", "supplierId", "itemTypeId"} \subseteq DOMAIN row /\ ItemRefsOk(db, row)
        THEN Done([db EXCEPT !.shipmentItems = Put(@, db.seq.shipmentItems, row),
                             !.seq.shipmentItems = @ + 1], TRUE)
        ELSE DbError

updateShipmentItem(db, id, item) ==
    IF id \notin DOMAIN db.shipmentItems THEN Done(db, FALSE)
    ELSE LET existing == db.shipmentItems[id]
             ctn == Get(item, "ctn", existing.ctn)
             pcsPerCtn == Get(item, "pcsPerCtn", existing.pcsPerCtn)
             pri == Get(item, "pri", ToMills(existing.pri))
             cou == ctn * pcsPerCtn
             total == cou * pri
             row == [cou |-> cou, total |-> ToCents(total)] @@ ItemValues(item) @@ existing
         IN  IF ItemRefsOk(db, row) THEN Done([db EXCEPT !.shipmentItems[id] = row], TRUE)
             ELSE DbError

deleteShipmentItem(db, id) == Done([db EXCEPT !.shipmentItems = Drop(@, {id})], TRUE)

\* insertShipmentItemSchema: supplierId and itemTypeId are required.
insertShipmentItemSchema(body) == {"supplierId", "itemTypeId"} \subseteq DOMAIN body

\* POST /api/shipments/:shipmentId/items
PostShipmentItem(u, shipmentId, body) ==
    IF requireEditor(u) # 0 THEN Reply(u, "POST", "/api/shipments/:shipmentId/items", requireEditor(u), store)
    ELSE IF ~insertShipmentItemSchema(body) THEN Reply(u, "POST", "/api/shipments/:shipmentId/items", 400, store)
    ELSE LET r == createShipmentItem(store, [shipmentId |-> shipmentId] @@ Only(body, ShipmentItemColumns)) IN
         IF ~r.ok THEN Reply(u, "POST", "/api/shipments/:shipmentId/items", 500, store)
         ELSE Reply(u, "POST", "/api/shipments/:shipmentId/items", 201, r.db)

\* PATCH /api/shipment-items/:id
PatchShipmentItem(u, id, body) ==
    IF requireEditor(u) # 0 THEN Reply(u, "PATCH", "/api/shipment-items/:id", requireEditor(u), store)
    ELSE LET r == updateShipmentItem(store, id, body) IN
         IF ~r.ok THEN Reply(u, "PATCH", "/api/shipment-items/:id", 500, store)
         ELSE IF ~r.found THEN Reply(u, "PATCH", "/api/shipment-items/:id", 404, store)
         ELSE Reply(u, "PATCH", "/api/shipment-items/:id", 200, r.db)

\* DELETE /api/shipment-items/:id
DeleteShipmentItem(u, id) ==
    IF requireEditor(u) # 0 THEN Reply(u, "DELETE", "/api/shipment-items/:id", requireEditor(u), store)
    ELSE Reply(u, "DELETE", "/api/shipment-items/:id", 204, deleteShipmentItem(store, id).db)

\* The fields of a bulk element the handler hands to the storage calls.
BulkFields(item) == Only(item, {"supplierId", "itemTypeId", "ctn", "pcsPerCtn", "cou", "pri", "total"})

\* Bulk replace, second loop: elements k.. of items are applied in order to acc;
\* a storage call that throws ends the loop and leaves what was written.
RECURSIVE BulkApply(_, _, _, _, _)
BulkApply(acc, shipmentId, existingIds, items, k) ==
    IF k > Len(items) THEN Done(acc, TRUE)
    ELSE LET item == items[k]
             r == IF "id" \in DOMAIN item /\ item.id \in existingIds
                  THEN updateShipmentItem(acc, item.id, BulkFields(item))
                  ELSE createShipmentItem(acc, [shipmentId |-> shipmentId] @@ BulkFields(item))
         IN  IF ~r.ok THEN [ok |-> FALSE, db |-> acc]
             ELSE BulkApply(r.db, shipmentId, existingIds, items, k + 1)

\* A first loop that deletes nothing.
BulkDeleteNothing(db, existingIds, incomingIds) == db

\* Bulk replace, first loop: the existing items whose id is not in the payload are deleted.
BulkDelete(db, existingIds, incomingIds) == [db EXCEPT !.shipmentItems = Drop(@, existingIds \ incomingIds)]

\* A handler that undoes its writes when a storage call throws.
PutShipmentItemsRollback(u, shipmentId, body) ==
    IF requireEditor(u) # 0 THEN Reply(u, "PUT", "/api/shipments/:shipmentId/items", requireEditor(u), store)
    ELSE IF "items" \notin DOMAIN body THEN Reply(u, "PUT", "/api/shipments/:shipmentId/items", 400, store)
    ELSE LET items == body.items
             existingIds == getShipmentItems(store, shipmentId)
             incomingIds == {items[k].id : k \in {j \in 1..Len(items) : "id" \in DOMAIN items[j]}}
             r == BulkApply(BulkDelete(store, existingIds, incomingIds), shipmentId, existingIds, items, 1)
         IN  IF ~r.ok THEN Reply(u, "PUT", "/api/shipments/:shipmentId/items", 500, store)
             ELSE Reply(u, "PUT", "/api/shipments/:shipmentId/items", 200, r.db)

\* PUT /api/shipments/:shipmentId/items
PutShipmentItems(u, shipmentId, body) ==
    IF requireEditor(u) # 0 THEN Reply(u, "PUT", "/api/shipments/:shipmentId/items", requireEditor(u), store)
    ELSE IF "items" \notin DOMAIN body THEN Reply(u, "PUT", "/api/shipments/:shipmentId/items", 400, store)
    ELSE LET items == body.items
             existingIds == getShipmentItems(store, shipmentId)
             incomingIds == {items[k].id : k \in {j \in 1..Len(items) : "id" \in DOMAIN items[j]}}
             r == BulkApply(BulkDelete(store, existingIds, incomingIds), shipmentId, existingIds, items, 1)
         IN  IF ~r.ok THEN Reply(u, "PUT", "/api/shipments/:shipmentId/items", 500, r.db)
             ELSE Reply(u, "PUT", "/api/shipments/:shipmentId/items", 200, r.db)

----------------------------------------------------------------------------
(* Importing details *)

\* The id of the importing_details row of shipment shipmentId, as a set (shipment_id is unique).
getImportingDetails(db, shipmentId) == {i \in DOMAIN db.importingDetails : db.importingDetails[i].shipmentId = shipmentId}

\* The values of a request as the columns store them: decimal(_, 2), but
\* shipmentSpaceM2, which is decimal(18, 3).
ImportingValues(details) ==
    [k \in DOMAIN details \cap ImportingDetailsColumns |->
        IF k \in {"shipmentId", "shipmentSpaceM2"} THEN details[k] ELSE ToCents(details[k])]

\* commission_percent is decimal(5, 2): a value of 1000 or more overflows the column.
PercentFits(row) == row.commissionPercent < 100000 /\ row.commissionPercent > -100000

upsertImportingDetails(db, details) ==
    LET commissionAmount == RoundDiv(Get(details, "totalShipmentPrice", 0) * Get(details, "commissionPercent", 0), 1000000)
        values == [commissionAmount |-> commissionAmount] @@ ImportingValues(details)
        old == getImportingDetails(db, details.shipmentId)
        row == IF old = {}
               THEN values @@ [totalShipmentPrice |-> 0, commissionPercent |-> 0, shipmentCost |-> 0, shipmentSpaceM2 |-> 0]
               ELSE values @@ db.importingDetails[CHOOSE i \in old : TRUE]
    IN  IF details.shipmentId \notin DOMAIN db.shipments \/ ~PercentFits(row) THEN DbError
        ELSE IF old = {}
        THEN Done([db EXCEPT !.importingDetails = Put(@, db.seq.importingDetails, row),
                             !.seq.importingDetails = @ + 1], TRUE)
        ELSE Done([db EXCEPT !.importingDetails[CHOOSE i \in old : TRUE] = row], TRUE)

\* POST /api/shipments/:shipmentId/importing
PostImportingDetails(u, shipmentId, body) ==
    IF requireEditor(u) # 0 THEN Reply(u, "POST", "/api/shipments/:shipmentId/importing", requireEditor(u), store)
    ELSE LET r == upsertImportingDetails(store, [shipmentId |-> shipmentId] @@ Only(body, ImportingDetailsColumns)) IN
         IF ~r.ok THEN Reply(u, "POST", "/api/shipments/:shipmentId/importing", 500, store)
         ELSE Reply(u, "POST", "/api/shipments/:shipmentId/importing", 200, r.db)

\* PUT /api/shipments/:shipmentId/importing-details
PutImportingDetails(u, shipmentId, body) ==
    IF requireEditor(u) # 0 THEN Reply(u, "PUT", "/api/shipments/:shipmentId/importing-details", requireEditor(u), store)
    ELSE LET r == upsertImportingDetails(store, [shipmentId |-> shipmentId] @@ Only(body, ImportingDetailsColumns)) IN
         IF ~r.ok THEN Reply(u, "PUT", "/api/shipments/:shipmentId/importing-details", 500, store)
         ELSE Reply(u, "PUT", "/api/shipments/:shipmentId/importing-details", 200, r.db)

----------------------------------------------------------------------------
(* Customs *)

\* The id of the customs row of shipment shipmentId, as a set (shipment_id is unique).
getCustoms(db, shipmentId) == {c \in DOMAIN db.customs : db.customs[c].shipmentId = shipmentId}

\* An upsert without the conflict branch: every call inserts a row.
insertCustoms(db, customsData) ==
    IF customsData.shipmentId \notin DOMAIN db.shipments THEN DbError
    ELSE Done([db EXCEPT !.customs = Put(@, db.seq.customs,
                             Only(customsData, CustomsColumns) @@ [totalPiecesRecorded |-> 0, totalPiecesAdjusted |-> 0, lossOrDamagePieces |-> 0]),
                         !.seq.customs = @ + 1], TRUE)

upsertCustoms(db, customsData) ==
    LET values == Only(customsData, CustomsColumns)
        old == getCustoms(db, customsData.shipmentId)
    IN  IF customsData.shipmentId \notin DOMAIN db.shipments THEN DbError
        ELSE IF old = {}
        THEN Done([db EXCEPT !.customs = Put(@, db.seq.customs,
                                 values @@ [totalPiecesRecorded |-> 0, totalPiecesAdjusted |-> 0, lossOrDamagePieces |-> 0]),
                             !.seq.customs = @ + 1], TRUE)
        ELSE Done([db EXCEPT !.customs[CHOOSE c \in old : TRUE] = values @@ @], TRUE)

\* The foreign keys of a customs_per_type row hold in db.
PerTypeRefsOk(db, row) == row.customsId \in DOMAIN db.customs /\ row.itemTypeId \in DOMAIN db.itemTypes

createCustomsPerType(db, data) ==
    LET row == Only(data, CustomsPerTypeColumns) @@ [totalPcsPerType |-> 0, totalCtnPerType |-> 0] IN
    IF {"customsId", "itemTypeId"} \subseteq DOMAIN row /\ PerTypeRefsOk(db, row)
    THEN Done([db EXCEPT !.customsPerType = Put(@, db.seq.customsPerType, row),
                         !.seq.customsPerType = @ + 1], TRUE)
    ELSE DbError

updateCustomsPerType(db, id, data) ==
    IF id \notin DOMAIN db.customsPerType THEN Done(db, FALSE)
    ELSE LET row == Only(data, CustomsPerTypeColumns) @@ db.customsPerType[id] IN
         IF PerTypeRefsOk(db, row) THEN Done([db EXCEPT !.customsPerType[id] = row], TRUE)
         ELSE DbError

deleteCustomsPerType(db, id) == Done([db EXCEPT !.customsPerType = Drop(@, {id})], TRUE)

\* insertCustomsPerTypeSchema: itemTypeId is required.
insertCustomsPerTypeSchema(body) == "itemTypeId" \in DOMAIN body

\* POST /api/shipments/:shipmentId/customs
PostCustoms(u, shipmentId, body) ==
    IF requireEditor(u) # 0 THEN Reply(u, "POST", "/api/shipments/:shipmentId/customs", requireEditor(u), store)
    ELSE LET r == upsertCustoms(store, [shipmentId |-> shipmentId] @@ Only(body, CustomsColumns)) IN
         IF ~r.ok THEN Reply(u, "POST", "/api/shipments/:shipmentId/customs", 500, store)
         ELSE Reply(u, "POST", "/api/shipments/:shipmentId/customs", 200, r.db)

\* POST /api/customs/:customsId/per-type
PostCustomsPerType(u, customsId, body) ==
    IF requireEditor(u) # 0 THEN Reply(u, "POST", "/api/customs/:customsId/per-type", requireEditor(u), store)
    ELSE IF ~insertCustomsPerTypeSchema(body) THEN Reply(u, "POST", "/api/customs/:customsId/per-type", 400, store)
    ELSE LET r == createCustomsPerType(store, [customsId |-> customsId] @@ Only(body, CustomsPerTypeColumns)) IN
         IF ~r.ok THEN Reply(u, "POST", "/api/customs/:customsId/per-type", 500, store)
         ELSE Reply(u, "POST", "/api/customs/:customsId/per-type", 201, r.db)

\* PATCH /api/customs-per-type/:id
PatchCustomsPerType(u, id, body) ==
    IF requireEditor(u) # 0 THEN Reply(u, "PATCH", "/api/customs-per-type/:id", requireEditor(u), store)
    ELSE LET r == updateCustomsPerType(store, id, body) IN
         IF ~r.ok THEN Reply(u, "PATCH", "/api/customs-per-type/:id", 500, store)
         ELSE IF ~r.found THEN Reply(u, "PATCH", "/api/customs-per-type/:id", 404, store)
         ELSE Reply(u, "PATCH", "/api/customs-per-type/:id", 200, r.db)

\* DELETE /api/customs-per-type/:id
DeleteCustomsPerType(u, id) ==
    IF requireEditor(u) # 0 THEN Reply(u, "DELETE", "/api/customs-per-type/:id", requireEditor(u), store)
    ELSE Reply(u, "DELETE", "/api/customs-per-type/:id", 204, deleteCustomsPerType(store, id).db)

----------------------------------------------------------------------------
(* The system: every mutating endpoint, on an initially empty database *)

NoRows == <<>>

\* The database after deployment: the first user was made ADMIN, every other
\* user has the role a first login gives (the column default).
EmptyStore ==
    [users |-> [u \in UserIds |-> IF u = 1 THEN "ADMIN" ELSE "VIEWER"],
     suppliers |-> NoRows, itemTypes |-> NoRows, shipments |-> NoRows, shipmentItems |-> NoRows,
     importingDetails |-> NoRows, customs |-> NoRows, customsPerType |-> NoRows,
     seq |-> [suppliers |-> 1, itemTypes |-> 1, shipments |-> 1, shipmentItems |-> 1,
              importingDetails |-> 1, customs |-> 1, customsPerType |-> 1]]

NoRequest == [role |-> "NONE", method |-> "NONE", route |-> "NONE", code |-> 0]

\* No bulk replace is in progress.
NoneInflight == <<>>

Init == store = EmptyStore /\ last = NoRequest /\ inflight = NoneInflight

\* A line item as the items page sends it (derived cou and total included).
ItemBody == [supplierId |-> 1, itemTypeId |-> 1, ctn |-> 1, pcsPerCtn |-> 2, cou |-> 2, pri |-> 2500, total |-> 5000]

\* Importing details as the importing page sends them (derived commissionAmount included).
ImportingBody == [totalShipmentPrice |-> 5000, commissionPercent |-> 10000, commissionAmount |-> 500, shipmentCost |-> 1000, shipmentSpaceM2 |-> 1500]

Next ==
    \/ \E u \in UserIds : \E id \in UserIds \ {u}, role \in userRoleEnum \cup {"OWNER"} : PatchUserRole(u, id, role)
    \/ \E u \in UserIds : store.seq.suppliers <= MaxSuppliers /\ PostSupplier(u, [name |-> "a"])
    \/ \E u \in UserIds, id \in 1..MaxSuppliers : PatchSupplier(u, id, [name |-> "b"])
    \/ \E u \in UserIds, id \in 1..MaxSuppliers : DeleteSupplier(u, id)
    \/ \E u \in UserIds : store.seq.itemTypes <= MaxItemTypes /\ PostItemType(u, [name |-> "a"])
    \/ \E u \in UserIds, id \in 1..MaxItemTypes : PatchItemType(u, id, [name |-> "b"])
    \/ \E u \in UserIds, id \in 1..MaxItemTypes : DeleteItemType(u, id)
    \/ \E u \in UserIds : store.seq.shipments <= MaxShipments /\ PostShipment(u, [backendMasterKey |-> "k1"])
    \/ \E u \in UserIds, id \in 1..MaxShipments : PatchShipment(u, id, [backendMasterKey |-> "k2"])
    \/ \E u \in UserIds, id \in 1..MaxShipments : PatchShipmentStatus(u, id, [status |-> "IMPORTING_DETAILS_DONE"])
    \/ \E u \in UserIds, id \in 1..MaxShipments : DeleteShipment(u, id)
    \/ \E u \in UserIds, id \in 1..MaxShipments : store.seq.shipmentItems <= MaxItems /\ PostShipmentItem(u, id, ItemBody)
    \/ \E u \in UserIds, id \in 1..MaxItems : PatchShipmentItem(u, id, [ctn |-> 3])
    \/ \E u \in UserIds, id \in 1..MaxItems : DeleteShipmentItem(u, id)
    \/ \E u \in UserIds, id \in 1..MaxShipments, items \in {<<>>, <<ItemBody>>} :
          store.seq.shipmentItems + Len(items) <= MaxItems + 1 /\ PutShipmentItems(u, id, [items |-> items])
    \/ \E u \in UserIds, id \in 1..MaxShipments : PostImportingDetails(u, id, ImportingBody)
    \/ \E u \in UserIds, id \in 1..MaxShipments : PutImportingDetails(u, id, ImportingBody)
    \/ \E u \in UserIds, id \in 1..MaxShipments : PostCustoms(u, id, [totalPiecesRecorded |-> 2])
    \/ \E u \in UserIds, id \in 1..MaxShipments : store.seq.customsPerType <= MaxPerType /\ PostCustomsPerType(u, id, [itemTypeId |-> 1])
    \/ \E u \in UserIds, id \in 1..MaxPerType : PatchCustomsPerType(u, id, [totalPcsPerType |-> 2])
    \/ \E u \in UserIds, id \in 1..MaxPerType : DeleteCustomsPerType(u, id)

Spec == Init /\ [][Next]_vars

----------------------------------------------------------------------------
(* The shipment workflow: the shipment endpoints with every status and key *)

Keys == {"k1", "k2"}

\* Bodies of POST /api/shipments: with and without a status of the client's choice.
PostShipmentBodies == {[backendMasterKey |-> k] : k \in Keys} \cup {[backendMasterKey |-> "k1", status |-> "CUSTOMS_RECEIVED"]}

\* Bodies of PATCH /api/shipments/:id: the form's fields, or any field of the row.
PatchShipmentBodies ==
    {[backendMasterKey |-> k] : k \in Keys} \cup {[status |-> s] : s \in shipmentStatusEnum \cup {"SHIPPED"}}

\* Bodies of PATCH /api/shipments/:id/status.
PatchStatusBodies == {[status |-> s] : s \in shipmentStatusEnum \cup {"SHIPPED"}} \cup {<<>>}

WorkflowIds == 1..MaxWorkflowShipments

NextWorkflow ==
    \/ \E u \in UserIds, id \in UserIds, role \in userRoleEnum : PatchUserRole(u, id, role)
    \/ \E u \in UserIds, body \in PostShipmentBodies : store.seq.shipments <= MaxWorkflowShipments /\ PostShipment(u, body)
    \/ \E u \in UserIds, id \in WorkflowIds, body \in PatchShipmentBodies : PatchShipment(u, id, body)
    \/ \E u \in UserIds, id \in WorkflowIds, body \in PatchStatusBodies : PatchShipmentStatus(u, id, body)
    \/ \E u \in UserIds, id \in WorkflowIds : ClientAdvance(u, id)
    \/ \E u \in UserIds, id \in WorkflowIds : DeleteShipment(u, id)

SpecWorkflow == Init /\ [][NextWorkflow]_vars

----------------------------------------------------------------------------
(* Line items and importing details of one shipment, with numeric inputs *)

\* The database after an ADMIN made user 2 an OPERATOR and created one supplier,
\* one item type and one shipment.
SeededStore ==
    [EmptyStore EXCEPT !.users = [u \in UserIds |-> IF u = 1 THEN "ADMIN" ELSE "OPERATOR"],
                       !.suppliers = Put(NoRows, 1, [name |-> "a"]),
                       !.itemTypes = Put(NoRows, 1, [name |-> "a"]),
                       !.shipments = Put(NoRows, 1, [status |-> "CREATED", backendMasterKey |-> "k1"]),
                       !.seq.suppliers = 2, !.seq.itemTypes = 2, !.seq.shipments = 2]

InitItems ==
    /\ store = SeededStore
    /\ last = [role |-> "ADMIN", method |-> "POST", route |-> "/api/shipments", code |-> 201]
    /\ inflight = NoneInflight

\* Prices in mills: "0.004" and "2.50".
Prices == {4, 2500}

\* Line items of a request; cou and total are whatever the client computed.
ItemBodies ==
    {[supplierId |-> 1, itemTypeId |-> 1, ctn |-> c, pcsPerCtn |-> 2, pri |-> p, cou |-> 7, total |-> 9990] :
        c \in {1, 3}, p \in Prices}

\* Partial updates of an item.
ItemPatches == {[ctn |-> 3], [pcsPerCtn |-> 1], [pri |-> 2500], [cou |-> 7, total |-> 9990]}

\* Elements of a bulk payload: a new line, and the lines with the id of an item.
BulkElements ==
    {[supplierId |-> 1, itemTypeId |-> 1, ctn |-> 3, pcsPerCtn |-> 2, pri |-> 2500, cou |-> 7, total |-> 9990]}
    \cup {[id |-> i, supplierId |-> 1, itemTypeId |-> 1, ctn |-> 1, pcsPerCtn |-> 2, pri |-> 2500, cou |-> 7, total |-> 9990] :
            i \in 1..MaxItemRows}

\* Bulk payloads: every list of at most MaxBulk elements.
BulkLists == UNION {[1..n -> BulkElements] : n \in 0..MaxBulk}

\* The lines of a payload that carry no id of an existing item of the shipment (they are inserted).
NewLines(shipmentId, items) ==
    Cardinality({k \in 1..Len(items) :
        ~("id" \in DOMAIN items[k] /\ items[k].id \in getShipmentItems(store, shipmentId))})

\* Importing details of a request, two decimals: "6.00" at "5" percent with a
\* commissionAmount of the client's, a percent alone, and a full payload for a total of "5.00".
ImportingBodies ==
    {[totalShipmentPrice |-> 6000, commissionPercent |-> 5000, commissionAmount |-> 9990],
     [commissionPercent |-> 10000],
     [totalShipmentPrice |-> 5000, commissionPercent |-> 10000, commissionAmount |-> 500, shipmentCost |-> 1000, shipmentSpaceM2 |-> 1500]}

NextItems ==
    \/ \E u \in UserIds, body \in ItemBodies : store.seq.shipmentItems <= MaxItemRows /\ PostShipmentItem(u, 1, body)
    \/ \E u \in UserIds, id \in 1..MaxItemRows, body \in ItemPatches : PatchShipmentItem(u, id, body)
    \/ \E u \in UserIds, id \in 1..MaxItemRows : DeleteShipmentItem(u, id)
    \/ \E u \in UserIds, items \in BulkLists :
          store.seq.shipmentItems + NewLines(1, items) <= MaxItemRows + 1 /\ PutShipmentItems(u, 1, [items |-> items])
    \/ \E u \in UserIds, body \in ImportingBodies : PostImportingDetails(u, 1, body)
    \/ \E u \in UserIds, body \in ImportingBodies : PutImportingDetails(u, 1, body)

SpecItems == InitItems /\ [][NextItems]_vars

----------------------------------------------------------------------------
(* Importing details and customs of one shipment along its workflow *)

\* GET /api/shipments/:shipmentId/customs: any authenticated user is served
\* "customs || null"; body holds the row found, and is empty for null.
GetCustoms(u, shipmentId) ==
    /\ last' = [role |-> RoleOf(u), method |-> "GET", route |-> "/api/shipments/:shipmentId/customs", code |-> 200,
                shipmentId |-> shipmentId, body |-> {store.customs[c] : c \in getCustoms(store, shipmentId)}]
    /\ UNCHANGED <<store, inflight>>

\* The line item of the workflow: 10 cartons of 24 pieces at "2.50".
ItemLine == [supplierId |-> 1, itemTypeId |-> 1, ctn |-> 10, pcsPerCtn |-> 24, pri |-> 2500]

\* Importing details of a request: values in range, a percent above 100 ("150"),
\* a percent the column cannot hold ("1000"), and negative amounts
\* (percent "-1", total "-5.00", cost "-1.00", space "-1.500").
RangeBodies ==
    {[totalShipmentPrice |-> 5000, commissionPercent |-> 10000, shipmentCost |-> 1000, shipmentSpaceM2 |-> 1500],
     [totalShipmentPrice |-> 5000, commissionPercent |-> 150000, shipmentCost |-> 1000, shipmentSpaceM2 |-> 1500],
     [commissionPercent |-> 1000000],
     [totalShipmentPrice |-> -5000, commissionPercent |-> -1000, shipmentCost |-> -1000, shipmentSpaceM2 |-> -1500]}

\* Customs of a request: the three counts, the adjusted count alone as the
\* customs page sends it with its loss, and a recorded count alone.
CustomsBodies ==
    {[totalPiecesRecorded |-> 240, totalPiecesAdjusted |-> 230, lossOrDamagePieces |-> 10],
     [totalPiecesAdjusted |-> 250, lossOrDamagePieces |-> 0],
     [totalPiecesRecorded |-> 7]}

NextCustoms ==
    \/ \E u \in UserIds, s \in shipmentStatusEnum : PatchShipmentStatus(u, 1, [status |-> s])
    \/ \E u \in UserIds : store.seq.shipmentItems <= MaxItemRows /\ PostShipmentItem(u, 1, ItemLine)
    \/ \E u \in UserIds, id \in 1..MaxItemRows : DeleteShipmentItem(u, id)
    \/ \E u \in UserIds, body \in RangeBodies : PostImportingDetails(u, 1, body)
    \/ \E u \in UserIds, body \in RangeBodies : PutImportingDetails(u, 1, body)
    \/ \E u \in UserIds, body \in CustomsBodies : PostCustoms(u, 1, body)
    \/ \E u \in UserIds : store.seq.customsPerType <= MaxPerType /\ PostCustomsPerType(u, 1, [itemTypeId |-> 1])
    \/ \E u \in UserIds : GetCustoms(u, 1)

SpecCustoms == InitItems /\ [][NextCustoms]_vars

----------------------------------------------------------------------------
(* Bulk replaces of the items of one shipment, some of which fail in storage *)

\* A supplier id that is not in the store: a row that refers to it violates the foreign key.
NoSuchSupplier == MaxSuppliers + 1

\* Elements a storage call rejects: a new line and a line with the id of an item,
\* both with the supplier that does not exist.
FailingElements ==
    {[supplierId |-> NoSuchSupplier, itemTypeId |-> 1, ctn |-> 3, pcsPerCtn |-> 2, pri |-> 2500]}
    \cup {[id |-> i, supplierId |-> NoSuchSupplier, itemTypeId |-> 1, ctn |-> 1, pcsPerCtn |-> 2, pri |-> 2500] :
            i \in 1..MaxItemRows}

\* Bulk payloads: every list of at most MaxBulk elements, failing or not.
FailingLists == UNION {[1..n -> BulkElements \cup FailingElements] : n \in 0..MaxBulk}

NextBulk ==
    \/ \E u \in UserIds, body \in ItemBodies : store.seq.shipmentItems <= MaxItemRows /\ PostShipmentItem(u, 1, body)
    \/ \E u \in UserIds, items \in FailingLists :
          store.seq.shipmentItems + NewLines(1, items) <= MaxItemRows + 1 /\ PutShipmentItems(u, 1, [items |-> items])

SpecBulk == InitItems /\ [][NextBulk]_vars

----------------------------------------------------------------------------
(* Bulk replaces of the items of one shipment on several connections: the      *)
(* handler runs up to each await of a storage call, where another may run.     *)

Connections == 1..MaxConnections

\* The ids of the payload items.
IncomingIds(items) == {items[k].id : k \in {j \in 1..Len(items) : "id" \in DOMAIN items[j]}}

\* The existing items the first loop of request req has still to delete.
ToDelete(req) == (req.existingIds \ IncomingIds(req.items)) \ req.deleted

\* PUT /api/shipments/:shipmentId/items up to the return of getShipmentItems.
BulkStart(c, u, shipmentId, body) ==
    /\ c \notin DOMAIN inflight
    /\ IF requireEditor(u) # 0 THEN Reply(u, "PUT", "/api/shipments/:shipmentId/items", requireEditor(u), store)
       ELSE IF "items" \notin DOMAIN body THEN Reply(u, "PUT", "/api/shipments/:shipmentId/items", 400, store)
       ELSE /\ inflight' = Put(inflight, c, [role |-> RoleOf(u), shipmentId |-> shipmentId, items |-> body.items,
                                             existingIds |-> getShipmentItems(store, shipmentId),
                                             deleted |-> {}, k |-> 1, code |-> 0])
            /\ UNCHANGED <<store, last>>

\* The next storage call of the request on connection c: a delete of the first
\* loop (in the order of getShipmentItems, by id), or the update or create of
\* element k in the second loop; a call that throws ends the request with 500.
BulkStep(c) ==
    /\ c \in DOMAIN inflight /\ inflight[c].code = 0
    /\ LET req == inflight[c] IN
       IF ToDelete(req) # {}
       THEN LET id == CHOOSE i \in ToDelete(req) : \A j \in ToDelete(req) : i <= j IN
            /\ store' = deleteShipmentItem(store, id).db
            /\ inflight' = [inflight EXCEPT ![c].deleted = @ \cup {id}]
            /\ UNCHANGED last
       ELSE /\ req.k <= Len(req.items)
            /\ LET item == req.items[req.k]
                   r == IF "id" \in DOMAIN item /\ item.id \in req.existingIds
                        THEN updateShipmentItem(store, item.id, BulkFields(item))
                        ELSE createShipmentItem(store, [shipmentId |-> req.shipmentId] @@ BulkFields(item))
               IN  IF r.ok
                   THEN /\ store' = r.db
                        /\ inflight' = [inflight EXCEPT ![c].k = @ + 1]
                        /\ UNCHANGED last
                   ELSE /\ last' = [role |-> req.role, method |-> "PUT", route |-> "/api/shipments/:shipmentId/items", code |-> 500]
                        /\ inflight' = [inflight EXCEPT ![c].code = 500]
                        /\ UNCHANGED store

\* res.json(results): both loops of the request on connection c are over.
BulkRespond(c) ==
    /\ c \in DOMAIN inflight /\ inflight[c].code = 0
    /\ ToDelete(inflight[c]) = {} /\ inflight[c].k > Len(inflight[c].items)
    /\ last' = [role |-> inflight[c].role, method |-> "PUT", route |-> "/api/shipments/:shipmentId/items", code |-> 200]
    /\ inflight' = [inflight EXCEPT ![c].code = 200]
    /\ UNCHANGED store

\* Bulk payloads in which no id is repeated.
DistinctLists == {items \in BulkLists : \A j, k \in 1..Len(items) : ("id" \in DOMAIN items[j] /\ "id" \in DOMAIN items[k] /\ j # k) => items[j].id # items[k].id}

\* Items are entered, then each connection sends one bulk replace.
NextConcurrent ==
    \/ \E u \in UserIds : inflight = NoneInflight /\ store.seq.shipmentItems <= MaxItemRows /\ PostShipmentItem(u, 1, ItemBody)
    \/ \E c \in Connections, u \in UserIds, items \in DistinctLists : BulkStart(c, u, 1, [items |-> items])
    \/ \E c \in Connections : BulkStep(c)
    \/ \E c \in Connections : BulkRespond(c)

SpecConcurrent == InitItems /\ [][NextConcurrent]_vars

----------------------------------------------------------------------------
(* Sign-in and access control: callers with and without a users row *)

\* storage.upsertUser: insert the user, or on a conflict of id set the fields the
\* caller passed. A role is written only when userData carries one; a new row
\* without one gets the column default.
\* An upsert whose conflict branch writes the column default over the stored role.
upsertUserResetRole(db, userData) ==
    [db EXCEPT !.users = Put(db.users, userData.id, "VIEWER")]

upsertUser(db, userData) ==
    LET id == userData.id
        role == IF "role" \in DOMAIN userData THEN userData.role
                ELSE IF id \in DOMAIN db.users THEN db.users[id]
                ELSE "VIEWER"
    IN [db EXCEPT !.users = Put(db.users, id, role)]

\* The sign-in callback: the identity provider's profile of user u is upserted.
\* The profile carries the id and the name fields, never a role.
Login(u) ==
    /\ store' = upsertUser(store, [id |-> u])
    /\ last' = [role |-> RoleOf(u), method |-> "GET", route |-> "/api/callback", code |-> 302]
    /\ UNCHANGED inflight

\* GET /api/users
GetUsers(u) ==
    IF requireAdmin(u) # 0 THEN Reply(u, "GET", "/api/users", requireAdmin(u), store)
    ELSE Reply(u, "GET", "/api/users", 200, store)

\* The roles each endpoint lists in its requireRole middleware.
AdminRoutes ==
    {<<"GET", "/api/users">>, <<"PATCH", "/api/users/:id/role">>, <<"DELETE", "/api/suppliers/:id">>,
     <<"DELETE", "/api/item-types/:id">>, <<"PATCH", "/api/shipments/:id/status">>, <<"DELETE", "/api/shipments/:id">>}

AllowedRoles(method, route) == IF <<method, route>> \in AdminRoutes THEN {"ADMIN"} ELSE {"ADMIN", "OPERATOR"}

\* Who may send a request: nobody signed in, or a signed-in user (with or
\* without a row in users).
Actors == {NoUserId} \cup UserIds

\* Only the first administrator has a row.
UsersStore == [EmptyStore EXCEPT !.users = (1 :> "ADMIN")]

InitUsers == store = UsersStore /\ last = NoRequest /\ inflight = NoneInflight

\* One request of caller u to a role-gated endpoint. The bodies of the updates
\* repeat the values the creations wrote, so the store varies in which rows
\* exist and in the roles.
RequestBy(u) ==
    \/ GetUsers(u)
    \/ \E id \in UserIds, role \in userRoleEnum : PatchUserRole(u, id, role)
    \/ store.seq.suppliers <= MaxSuppliers /\ PostSupplier(u, [name |-> "a"])
    \/ \E id \in 1..MaxSuppliers : PatchSupplier(u, id, [name |-> "a"])
    \/ \E id \in 1..MaxSuppliers : DeleteSupplier(u, id)
    \/ store.seq.itemTypes <= MaxItemTypes /\ PostItemType(u, [name |-> "a"])
    \/ \E id \in 1..MaxItemTypes : PatchItemType(u, id, [name |-> "a"])
    \/ \E id \in 1..MaxItemTypes : DeleteItemType(u, id)
    \/ store.seq.shipments <= MaxShipments /\ PostShipment(u, [backendMasterKey |-> "k1"])
    \/ \E id \in 1..MaxShipments : PatchShipment(u, id, [backendMasterKey |-> "k1"])
    \/ \E id \in 1..MaxShipments : PatchShipmentStatus(u, id, [status |-> "IMPORTING_DETAILS_DONE"])
    \/ \E id \in 1..MaxShipments : DeleteShipment(u, id)
    \/ \E id \in 1..MaxShipments : store.seq.shipmentItems <= MaxItems /\ PostShipmentItem(u, id, ItemBody)
    \/ \E id \in 1..MaxItems : PatchShipmentItem(u, id, [ctn |-> 1])
    \/ \E id \in 1..MaxItems : DeleteShipmentItem(u, id)
    \/ \E id \in 1..MaxShipments : store.seq.shipmentItems <= MaxItems /\ PutShipmentItems(u, id, [items |-> <<ItemBody>>])
    \/ \E id \in 1..MaxShipments : PostImportingDetails(u, id, ImportingBody)
    \/ \E id \in 1..MaxShipments : PutImportingDetails(u, id, ImportingBody)
    \/ \E id \in 1..MaxShipments : PostCustoms(u, id, [totalPiecesRecorded |-> 2])
    \/ \E id \in 1..MaxShipments : store.seq.customsPerType <= MaxPerType /\ PostCustomsPerType(u, id, [itemTypeId |-> 1])
    \/ \E id \in 1..MaxPerType : PatchCustomsPerType(u, id, [itemTypeId |-> 1])
    \/ \E id \in 1..MaxPerType : DeleteCustomsPerType(u, id)

NextUsers ==
    \/ \E u \in UserIds : Login(u)
    \/ \E u \in Actors : RequestBy(u)

SpecUsers == InitUsers /\ [][NextUsers]_vars

----------------------------------------------------------------------------
(* Relations: two shipments with their items, importing details and customs *)

\* The database after an ADMIN made user 2 an OPERATOR and created one supplier,
\* one item type and two shipments.
RelatedStore ==
    [SeededStore EXCEPT !.shipments = Put(@, 2, [status |-> "CREATED", backendMasterKey |-> "k2"]),
                        !.seq.shipments = 3]

InitRelations ==
    /\ store = RelatedStore
    /\ last = [role |-> "ADMIN", method |-> "POST", route |-> "/api/shipments", code |-> 201]
    /\ inflight = NoneInflight

RelatedShipments == 1..2

\* The ids the customs rows of the two shipments get.
RelatedCustoms == 1..2

\* An item type no row has.
NoSuchItemType == MaxItemTypes + 1

\* Lines of a request: the supplier exists or not.
RelatedItemBodies == {ItemBody, [ItemBody EXCEPT !.supplierId = NoSuchSupplier]}

\* Partial updates of an item: another shipment, another supplier.
RelatedItemPatches == {[shipmentId |-> s] : s \in RelatedShipments} \cup {[supplierId |-> NoSuchSupplier]}

\* Bulk payloads: empty, a new line, or a line carrying the id of some item.
RelatedLists == {<<>>, <<ItemBody>>} \cup {<<[id |-> i] @@ ItemBody>> : i \in 1..MaxRelatedItems}

\* The OPERATOR edits; both users send the requests reserved to an ADMIN.
NextRelations ==
    \/ \E id \in RelatedShipments, body \in RelatedItemBodies :
          store.seq.shipmentItems <= MaxRelatedItems /\ PostShipmentItem(2, id, body)
    \/ \E id \in 1..MaxRelatedItems, body \in RelatedItemPatches : PatchShipmentItem(2, id, body)
    \/ \E id \in RelatedShipments, items \in RelatedLists :
          store.seq.shipmentItems + NewLines(id, items) <= MaxRelatedItems + 1 /\ PutShipmentItems(2, id, [items |-> items])
    \/ \E id \in RelatedShipments : PostImportingDetails(2, id, ImportingBody)
    \/ \E id \in RelatedShipments : PostCustoms(2, id, [totalPiecesRecorded |-> 2])
    \/ \E id \in RelatedCustoms, t \in {1, NoSuchItemType} :
          store.seq.customsPerType <= MaxRelatedPerType /\ PostCustomsPerType(2, id, [itemTypeId |-> t])
    \/ \E id \in 1..MaxRelatedPerType : PatchCustomsPerType(2, id, [itemTypeId |-> NoSuchItemType])
    \/ \E u \in UserIds, id \in RelatedShipments : DeleteShipment(u, id)
    \/ \E u \in UserIds : DeleteSupplier(u, 1)
    \/ \E u \in UserIds : DeleteItemType(u, 1)

SpecRelations == InitRelations /\ [][NextRelations]_vars

----------------------------------------------------------------------------
(* Claims *)

\* The shipments that exist before and after a step.
Kept == DOMAIN store.shipments \cap DOMAIN store'.shipments

\* C1: no request ever moves the status of a shipment to an earlier stage of
\* CREATED < IMPORTING_DETAILS_DONE < CUSTOMS_IN_PROGRESS < CUSTOMS_RECEIVED.
C1_StatusNeverMovesBack ==
    [][\A id \in Kept : Rank(store'.shipments[id].status) >= Rank(store.shipments[id].status)]_vars

\* C2: no request of an OPERATOR takes a shipment from CUSTOMS_IN_PROGRESS to
\* CUSTOMS_RECEIVED, and a shipment comes to be CUSTOMS_RECEIVED only by a request of an ADMIN.
C2_OnlyAdminReachesReceived ==
    [][/\ last'.role = "OPERATOR" =>
            \A id \in Kept : ~(/\ store.shipments[id].status = "CUSTOMS_IN_PROGRESS"
                               /\ store'.shipments[id].status = "CUSTOMS_RECEIVED")
       /\ \A id \in DOMAIN store'.shipments :
            (/\ store'.shipments[id].status = "CUSTOMS_RECEIVED"
             /\ (id \in DOMAIN store.shipments => store.shipments[id].status # "CUSTOMS_RECEIVED"))
            => last'.role = "ADMIN"]_vars

\* C3: whenever the shipment page offers the advance button (canAdvanceStatus), the
\* status request it sends is accepted and the shipment takes the successor status;
\* so an OPERATOR advances from CREATED and from IMPORTING_DETAILS_DONE.
C3_OfferedAdvanceAccepted ==
    [][\A u \in UserIds, id \in WorkflowIds :
          ClientAdvance(u, id) =>
              /\ last'.code = 200
              /\ store'.shipments[id].status = getNextStatus(store.shipments[id].status)]_vars

\* C4: a status change to anything but the immediate successor of the current
\* status takes effect only in a request of an ADMIN.
C4_OverwriteOnlyByAdmin ==
    [][\A id \in Kept :
          (/\ store'.shipments[id].status # store.shipments[id].status
           /\ store'.shipments[id].status # getNextStatus(store.shipments[id].status))
          => last'.role = "ADMIN"]_vars

\* Every one of the four mutating methods.
Mutating == {"POST", "PUT", "PATCH", "DELETE"}

\* C5: a mutating request of a user whose stored role is VIEWER is answered 403 and
\* leaves the store as it was; a request of an ADMIN is never answered 403.
C5_ViewerForbidden ==
    [][/\ (last'.role = "VIEWER" /\ last'.method \in Mutating) => (last'.code = 403 /\ store' = store)
       /\ last'.role = "ADMIN" => last'.code # 403]_vars

\* C5 happens: a VIEWER's DELETE was answered 403 while the store holds a shipment and a supplier.
C5_Witness ==
    /\ last = [role |-> "VIEWER", method |-> "DELETE", route |-> "/api/shipments/:id", code |-> 403]
    /\ DOMAIN store.shipments # {}
    /\ DOMAIN store.suppliers # {}

\* The rows of table t that a step keeps.
RowsKept(t) == DOMAIN store[t] \subseteq DOMAIN store'[t]

\* C6 as stated: no request of an OPERATOR removes a row of any table.
C6_OperatorRemovesNothing ==
    [][last'.role = "OPERATOR" =>
          \A t \in {"suppliers", "itemTypes", "shipments", "shipmentItems", "importingDetails", "customs", "customsPerType"} :
              RowsKept(t)]_vars

\* C6 as amended: no request of an OPERATOR removes a Supplier, an ItemType, a
\* Shipment, an ImportingDetails or a Customs row (an OPERATOR does remove
\* ShipmentItems and CustomsPerType rows).
C6_OperatorKeepsParents ==
    [][last'.role = "OPERATOR" =>
          \A t \in {"suppliers", "itemTypes", "shipments", "importingDetails", "customs"} : RowsKept(t)]_vars

\* C6 happens: an OPERATOR's DELETE was served while suppliers, item types and shipments exist.
C6_Witness ==
    /\ last = [role |-> "OPERATOR", method |-> "DELETE", route |-> "/api/shipment-items/:id", code |-> 204]
    /\ DOMAIN store.shipments # {}
    /\ DOMAIN store.suppliers # {}
    /\ DOMAIN store.itemTypes # {}

\* C7: a request of an OPERATOR leaves the backendMasterKey of every existing
\* shipment as it was; the key changes only in a request of an ADMIN.
C7_KeyChangedOnlyByAdmin ==
    [][\A id \in Kept :
          store'.shipments[id].backendMasterKey # store.shipments[id].backendMasterKey
          => last'.role = "ADMIN"]_vars

\* The sum of the stored totals of the items ids.
RECURSIVE SumTotals(_)
SumTotals(ids) ==
    IF ids = {} THEN 0
    ELSE LET i == CHOOSE x \in ids : TRUE IN store.shipmentItems[i].total + SumTotals(ids \ {i})

\* C8: every stored ShipmentItem has cou = ctn * pcsPerCtn and total = cou * pri.
C8_ItemDerivedValues ==
    \A i \in DOMAIN store.shipmentItems :
        LET item == store.shipmentItems[i] IN
        /\ item.cou = item.ctn * item.pcsPerCtn
        /\ item.total = item.cou * item.pri

\* C9: the totalShipmentPrice of every stored ImportingDetails record is the sum
\* of the totals of the items its shipment has now.
C9_TotalIsSumOfItems ==
    \A d \in DOMAIN store.importingDetails :
        store.importingDetails[d].totalShipmentPrice
            = SumTotals(getShipmentItems(store, store.importingDetails[d].shipmentId))

\* C10: every stored ImportingDetails record has
\* commissionAmount = totalShipmentPrice * commissionPercent / 100, in cents.
C10_CommissionDerived ==
    \A d \in DOMAIN store.importingDetails :
        LET details == store.importingDetails[d] IN
        details.commissionAmount = RoundDiv(details.totalShipmentPrice * details.commissionPercent, 10000)

\* C11: no stored ImportingDetails record has a commissionPercent outside [0, 100]
\* or a negative totalShipmentPrice, shipmentCost or shipmentSpaceM2.
C11_ImportingInRange ==
    \A d \in DOMAIN store.importingDetails :
        LET details == store.importingDetails[d] IN
        /\ details.commissionPercent >= 0 /\ details.commissionPercent <= 10000
        /\ details.totalShipmentPrice >= 0
        /\ details.shipmentCost >= 0
        /\ details.shipmentSpaceM2 >= 0

\* C12: every stored Customs record has
\* lossOrDamagePieces = totalPiecesRecorded - totalPiecesAdjusted.
C12_LossDerived ==
    \A c \in DOMAIN store.customs :
        store.customs[c].lossOrDamagePieces
            = store.customs[c].totalPiecesRecorded - store.customs[c].totalPiecesAdjusted

\* The sum of cou over the items ids of db.
RECURSIVE SumCou(_, _)
SumCou(db, ids) ==
    IF ids = {} THEN 0
    ELSE LET i == CHOOSE x \in ids : TRUE IN db.shipmentItems[i].cou + SumCou(db, ids \ {i})

\* C13: when the status of a shipment becomes CUSTOMS_RECEIVED, the shipment has a
\* Customs record whose totalPiecesRecorded is the sum of cou over its items.
C13_ReceivedSeedsCustoms ==
    [][\A id \in Kept :
          (/\ store.shipments[id].status # "CUSTOMS_RECEIVED"
           /\ store'.shipments[id].status = "CUSTOMS_RECEIVED")
          => \E c \in getCustoms(store', id) :
                store'.customs[c].totalPiecesRecorded = SumCou(store', getShipmentItems(store', id))]_vars

\* C14: the totalPiecesRecorded of an existing Customs record never changes.
C14_RecordedIsSnapshot ==
    [][\A c \in DOMAIN store.customs \cap DOMAIN store'.customs :
          store'.customs[c].totalPiecesRecorded = store.customs[c].totalPiecesRecorded]_vars

\* C15: a read of the customs of a shipment returns a Customs record only if the
\* status of the shipment is CUSTOMS_RECEIVED.
C15_CustomsReadGated ==
    (last.method = "GET" /\ last.route = "/api/shipments/:shipmentId/customs" /\ last.body # {})
        => store.shipments[last.shipmentId].status = "CUSTOMS_RECEIVED"

\* C16: a Customs record, and a CustomsPerType row, exists only for a shipment
\* whose status is CUSTOMS_RECEIVED.
C16_CustomsOnlyWhenReceived ==
    /\ \A c \in DOMAIN store.customs :
          store.shipments[store.customs[c].shipmentId].status = "CUSTOMS_RECEIVED"
    /\ \A t \in DOMAIN store.customsPerType :
          store.shipments[store.customs[store.customsPerType[t].customsId].shipmentId].status = "CUSTOMS_RECEIVED"

\* The positions of the list items that carry the id of an item in ids.
Updating(items, ids) == {k \in 1..Len(items) : "id" \in DOMAIN items[k] /\ items[k].id \in ids}

\* The item row has the values of the element item of a payload.
HasValuesOf(row, item) ==
    /\ row.supplierId = item.supplierId /\ row.itemTypeId = item.itemTypeId
    /\ row.ctn = item.ctn /\ row.pcsPerCtn = item.pcsPerCtn /\ row.pri = ToCents(item.pri)

\* What a successful bulk replace of the items of shipment 1 by the list items does:
\* the old items whose id is not in the list are gone, an old item whose id is in
\* the list has the values of the last element with that id, and there is one
\* new item, of the shipment, per element without the id of an old item.
BulkDiffDone(items) ==
    LET old == getShipmentItems(store, 1)
        now == getShipmentItems(store', 1)
        upd == Updating(items, old)
    IN  /\ now \cap old = {items[k].id : k \in upd}
        /\ \A k \in upd : (\A j \in upd : j > k => items[j].id # items[k].id)
                            => HasValuesOf(store'.shipmentItems[items[k].id], items[k])
        /\ Cardinality(now \ old) = Len(items) - Cardinality(upd)
        /\ \A k \in 1..Len(items) \ upd : \E i \in now \ old : HasValuesOf(store'.shipmentItems[i], items[k])

Fails(item) == item.supplierId \notin DOMAIN store.suppliers \/ item.itemTypeId \notin DOMAIN store.itemTypes

\* What a bulk replace of the items of shipment 1 by the list items leaves when
\* its element f is the first to fail: the old items whose id is not in the list
\* are gone, the elements before f are applied, the elements from f on are not.
PartlyDone(items, f) ==
    LET old == getShipmentItems(store, 1)
        now == getShipmentItems(store', 1)
        upd == Updating(items, old)
        before == 1..(f - 1)
    IN  /\ Fails(items[f]) /\ \A k \in before : ~Fails(items[k])
        /\ now \cap old = {items[k].id : k \in upd}
        /\ \A k \in upd \cap before : (\A j \in upd \cap before : j > k => items[j].id # items[k].id)
                                        => HasValuesOf(store'.shipmentItems[items[k].id], items[k])
        /\ \A k \in upd : (\A j \in upd \cap before : items[j].id # items[k].id)
                            => store'.shipmentItems[items[k].id] = store.shipmentItems[items[k].id]
        /\ Cardinality(now \ old) = Cardinality(before \ upd)

ItemsAre(items) ==
    LET now == getShipmentItems(store, 1) IN
    /\ Cardinality(now) = Len(items)
    /\ \A k \in 1..Len(items) : \E i \in now : HasValuesOf(store.shipmentItems[i], items[k])
    /\ \A i \in now : \E k \in 1..Len(items) : HasValuesOf(store.shipmentItems[i], items[k])

\* C18: when the bulk replaces of all connections have been answered 200, the
\* items of the shipment are the list of one of them, never a mixture.
C18_LastWriterWins ==
    (DOMAIN inflight = Connections /\ \A c \in Connections : inflight[c].code = 200)
        => \E c \in Connections : ItemsAre(inflight[c].items)

\* Bodies of a status request that are malformed: a status that is no value of
\* the enum, and no status at all.
MalformedStatusBodies == {[status |-> "SHIPPED"], <<>>}

\* C20: a mutating request with a malformed body is answered 400 and leaves the
\* store as it was; here the status request, for an existing shipment, of a user
\* the role check lets through.
C20_MalformedRejected ==
    [][\A u \in UserIds, id \in DOMAIN store.shipments, body \in MalformedStatusBodies :
          (requireAdmin(u) = 0 /\ PatchShipmentStatus(u, id, body))
          => (last'.code = 400 /\ store' = store)]_vars

\* C21: a request to a role-gated endpoint by a caller who is not signed in is
\* answered 401, one by a signed-in caller who has no users row or whose stored
\* role the endpoint does not list is answered 403, and neither changes the store.
C21_GateRejects ==
    [][(last'.route # "/api/callback" /\ last'.role \notin AllowedRoles(last'.method, last'.route))
          => /\ last'.code = (IF last'.role = "ANONYMOUS" THEN 401 ELSE 403)
             /\ store' = store]_vars

\* C21 happens: a signed-in caller without a users row was answered 403 on the
\* deletion of an existing shipment.
C21_Witness ==
    /\ last = [role |-> "NONE", method |-> "DELETE", route |-> "/api/shipments/:id", code |-> 403]
    /\ DOMAIN store.shipments # {}
    /\ DOMAIN store.users # UserIds

\* C22: a users row is created only by a sign-in and then holds the role VIEWER;
\* no row disappears; and the role of an existing row changes only in a
\* PATCH /api/users/:id/role answered 200 to an ADMIN, so neither a later sign-in of
\* that user nor any request of an OPERATOR or VIEWER changes a role.
C22_RoleChangedOnlyByAdmin ==
    [][/\ \A u \in DOMAIN store'.users \ DOMAIN store.users :
             store'.users[u] = "VIEWER" /\ last'.route = "/api/callback"
       /\ \A u \in DOMAIN store.users :
             /\ u \in DOMAIN store'.users
             /\ store'.users[u] # store.users[u]
                   => last' = [role |-> "ADMIN", method |-> "PATCH", route |-> "/api/users/:id/role", code |-> 200]]_vars

\* C22 happens: a user whose stored role is OPERATOR has signed in again and is
\* still an OPERATOR.
C22_Witness ==
    /\ last = [role |-> "OPERATOR", method |-> "GET", route |-> "/api/callback", code |-> 302]
    /\ \E u \in DOMAIN store.users : store.users[u] = "OPERATOR"

\* The rows of table t that belong to shipment id in db.
RowsOf(db, t, id) == {r \in DOMAIN db[t] : db[t][r].shipmentId = id}

\* The customs_per_type rows under the customs record of shipment id in db.
PerTypeOf(db, id) == {p \in DOMAIN db.customsPerType : db.customsPerType[p].customsId \in RowsOf(db, "customs", id)}

\* Table t holds after the step exactly the rows it held that are not in gone, unchanged.
OthersUntouched(t, gone) ==
    /\ DOMAIN store'[t] = DOMAIN store[t] \ gone
    /\ \A r \in DOMAIN store'[t] : store'[t][r] = store[t][r]

\* C23: after DELETE /api/shipments/:id by an ADMIN the shipment and every item,
\* importing-details, customs and per-type row of it are gone, while the rows of
\* the other shipments, the suppliers and the item types are as before; the same
\* request by a user who is not an ADMIN changes nothing.
C23_DeleteCascades ==
    [][(last'.method = "DELETE" /\ last'.route = "/api/shipments/:id") =>
          \A u \in UserIds, id \in RelatedShipments :
              DeleteShipment(u, id) =>
                  IF RoleOf(u) = "ADMIN"
                  THEN /\ OthersUntouched("shipments", {id})
                       /\ OthersUntouched("shipmentItems", RowsOf(store, "shipmentItems", id))
                       /\ OthersUntouched("importingDetails", RowsOf(store, "importingDetails", id))
                       /\ OthersUntouched("customs", RowsOf(store, "customs", id))
                       /\ OthersUntouched("customsPerType", PerTypeOf(store, id))
                       /\ store'.suppliers = store.suppliers /\ store'.itemTypes = store.itemTypes
                       /\ \A t \in {"shipmentItems", "importingDetails", "customs"} : RowsOf(store', t, id) = {}
                  ELSE store' = store]_vars

\* C23 happens: an ADMIN deleted a shipment that had importing details and customs
\* (two of each were created, one is left), and the remaining shipment still has
\* its item, importing details, customs and per-type row.
C23_Witness ==
    /\ last = [role |-> "ADMIN", method |-> "DELETE", route |-> "/api/shipments/:id", code |-> 204]
    /\ store.seq.importingDetails = 3 /\ store.seq.customs = 3
    /\ \E id \in DOMAIN store.shipments :
          /\ DOMAIN store.shipments = {id}
          /\ RowsOf(store, "shipmentItems", id) # {}
          /\ Cardinality(RowsOf(store, "importingDetails", id)) = 1
          /\ Cardinality(RowsOf(store, "customs", id)) = 1
          /\ PerTypeOf(store, id) # {}

\* C24: no shipment ever has more than one importing-details row or more than
\* one customs row, however many upserts were sent for it.
C24_AtMostOnePerShipment ==
    \A id \in RelatedShipments :
        /\ Cardinality(RowsOf(store, "importingDetails", id)) <= 1
        /\ Cardinality(RowsOf(store, "customs", id)) <= 1

\* C24 happens: a customs upsert was answered 200 while both shipments have
\* their importing details and their customs record.
C24_Witness ==
    /\ last = [role |-> "OPERATOR", method |-> "POST", route |-> "/api/shipments/:shipmentId/customs", code |-> 200]
    /\ \A id \in RelatedShipments :
          /\ Cardinality(RowsOf(store, "importingDetails", id)) = 1
          /\ Cardinality(RowsOf(store, "customs", id)) = 1

\* C25: under every customs record the per-type rows have pairwise distinct
\* itemTypeId, and their item types are exactly the item types of the items of
\* the record's shipment.
C25_OneRowPerItemType ==
    \A c \in DOMAIN store.customs :
        LET rows == {p \in DOMAIN store.customsPerType : store.customsPerType[p].customsId = c}
            items == RowsOf(store, "shipmentItems", store.customs[c].shipmentId)
        IN  /\ \A p, q \in rows : store.customsPerType[p].itemTypeId = store.customsPerType[q].itemTypeId => p = q
            /\ {store.customsPerType[p].itemTypeId : p \in rows} = {store.shipmentItems[i].itemTypeId : i \in items}

\* The stage after s in the workflow order, "null" after the last one.
Successor(s) == IF Rank(s) < Len(statusOrder) THEN statusOrder[Rank(s) + 1] ELSE "null"

\* C26: the advance of a shipment asks for the stage right after the current one
\* and, when accepted, leaves the shipment at exactly that stage (otherwise where
\* it was); at CUSTOMS_RECEIVED no successor is computed and no role is offered
\* the advance.
C26_AdvanceFollowsTable ==
    [][/\ \A s \in shipmentStatusEnum : getNextStatus(s) = Successor(s)
       /\ \A role \in userRoleEnum : ~canAdvanceStatus(role, "CUSTOMS_RECEIVED")
       /\ \A u \in UserIds, id \in WorkflowIds :
             ClientAdvance(u, id) =>
                 /\ store.shipments[id].status # "CUSTOMS_RECEIVED"
                 /\ id \in DOMAIN store'.shipments
                 /\ store'.shipments[id].status \in {store.shipments[id].status, Successor(store.shipments[id].status)}
                 /\ last'.code = 200 => store'.shipments[id].status = Successor(store.shipments[id].status)]_vars

\* C26 happens: an ADMIN's status request was accepted, one shipment is at the
\* last stage and another at the second.
C26_Witness ==
    /\ last = [role |-> "ADMIN", method |-> "PATCH", route |-> "/api/shipments/:id/status", code |-> 200]
    /\ \E id \in DOMAIN store.shipments : store.shipments[id].status = "CUSTOMS_RECEIVED"
    /\ \E id \in DOMAIN store.shipments : store.shipments[id].status = "IMPORTING_DETAILS_DONE"

\* The elements of a payload for shipment id that carry the id of an item of
\* another shipment.
ForeignLines(id, items) ==
    {k \in 1..Len(items) : /\ "id" \in DOMAIN items[k]
                           /\ items[k].id \in DOMAIN store.shipmentItems
                           /\ store.shipmentItems[items[k].id].shipmentId # id}

\* C27: a bulk replace on shipment id leaves every item of every other shipment
\* in place and unchanged and gives the other shipments no new item; an accepted
\* payload inserts one new item of shipment id for each element that carries the
\* id of another shipment's item.
C27_BulkStaysInShipment ==
    [][(last'.method = "PUT" /\ last'.route = "/api/shipments/:shipmentId/items") =>
          \A u \in UserIds, id \in RelatedShipments, items \in RelatedLists :
              PutShipmentItems(u, id, [items |-> items]) =>
                  /\ \A i \in DOMAIN store.shipmentItems :
                        store.shipmentItems[i].shipmentId # id
                            => i \in DOMAIN store'.shipmentItems /\ store'.shipmentItems[i] = store.shipmentItems[i]
                  /\ \A s \in RelatedShipments \ {id} : RowsOf(store', "shipmentItems", s) = RowsOf(store, "shipmentItems", s)
                  /\ last'.code = 200 =>
                        Cardinality(RowsOf(store', "shipmentItems", id) \ DOMAIN store.shipmentItems)
                            >= Cardinality(ForeignLines(id, items))]_vars

\* C27 happens: a bulk replace on a shipment was accepted, it created the second
\* item, and the first item is still an item of the other shipment.
C27_Witness ==
    /\ last = [role |-> "OPERATOR", method |-> "PUT", route |-> "/api/shipments/:shipmentId/items", code |-> 200]
    /\ DOMAIN store.shipmentItems = {1, 2}
    /\ store.shipmentItems[1].shipmentId # store.shipmentItems[2].shipmentId

\* C28: while the store holds the role VIEWER for user u, every request of u to a
\* mutating endpoint is answered 403 and changes nothing, whatever role u had
\* before (the first administrator included, once another ADMIN has made them a VIEWER).
C28_DemotionTakesEffect ==
    [][(last'.method \in Mutating /\ ~(last'.code = 403 /\ store' = store)) =>
          \A u \in DOMAIN store.users : store.users[u] = "VIEWER" => ~RequestBy(u)]_vars

\* C28 happens: the first administrator, made a VIEWER by the user they had
\* promoted, was answered 403 on creating a shipment.
C28_Witness ==
    /\ last = [role |-> "VIEWER", method |-> "POST", route |-> "/api/shipments", code |-> 403]
    /\ store.users = (1 :> "VIEWER" @@ 2 :> "ADMIN")

\* Every item references a supplier and an item type that exist, every per-type
\* row an item type that exists.
ReferencesHold ==
    /\ \A i \in DOMAIN store.shipmentItems :
          /\ store.shipmentItems[i].supplierId \in DOMAIN store.suppliers
          /\ store.shipmentItems[i].itemTypeId \in DOMAIN store.itemTypes
    /\ \A p \in DOMAIN store.customsPerType : store.customsPerType[p].itemTypeId \in DOMAIN store.itemTypes

\* C29: in every state the items reference existing suppliers and item types
\* and the per-type rows existing item types; and the deletion of a supplier or
\* item type that a row still references is answered with an error and changes nothing.
C29_ReferentialIntegrity ==
    /\ []ReferencesHold
    /\ [][/\ (last'.method = "DELETE" /\ last'.route = "/api/suppliers/:id") =>
              \A u \in UserIds :
                  (DeleteSupplier(u, 1) /\ \E i \in DOMAIN store.shipmentItems : store.shipmentItems[i].supplierId = 1)
                      => (last'.code >= 400 /\ store' = store)
          /\ (last'.method = "DELETE" /\ last'.route = "/api/item-types/:id") =>
              \A u \in UserIds :
                  (/\ DeleteItemType(u, 1)
                   /\ \/ \E i \in DOMAIN store.shipmentItems : store.shipmentItems[i].itemTypeId = 1
                      \/ \E p \in DOMAIN store.customsPerType : store.customsPerType[p].itemTypeId = 1)
                      => (last'.code >= 400 /\ store' = store)]_vars

\* C29 happens: an ADMIN's deletion of the supplier was answered 500 while an
\* item references the supplier.
C29_Witness ==
    /\ last = [role |-> "ADMIN", method |-> "DELETE", route |-> "/api/suppliers/:id", code |-> 500]
    /\ \E i \in DOMAIN store.shipmentItems : store.shipmentItems[i].supplierId = 1
    /\ 1 \in DOMAIN store.suppliers

\* C30: no request changes the shipmentId of an item that exists before and
\* after it.
C30_ShipmentIdFixed ==
    [][\A i \in DOMAIN store.shipmentItems \cap DOMAIN store'.shipmentItems :
          store'.shipmentItems[i].shipmentId = store.shipmentItems[i].shipmentId]_vars

====
